---------------------------- MODULE Spec2Model ----------------------------
(***************************************************************************)
(* plasmod: translation of alignments made against a duplicated circular   *)
(* reference (length 2L) back to the coordinates of the original reference *)
(* (length L).                                                             *)
(*                                                                         *)
(* Two state machines are modelled from src/src/lib.rs:                    *)
(*   - mod_cigar, one state per iteration of its walk over the cigar       *)
(*     operations (specification Spec);                                    *)
(*   - halve, one step per record pulled from the reader (specification    *)
(*     SpecHalve), which calls mod_cigar as the operator ModCigar.         *)
(* Both use the same definitions of the loop body (WalkStep) and of the    *)
(* code after the loop (Assemble).                                         *)
(*                                                                         *)
(* Cigar lengths are u32.  A u32 value is represented by the 32-bit two's  *)
(* complement integer with the same bit pattern, so the values 2^31 and    *)
(* above (the results of a wrapped-around subtraction) are the negative    *)
(* integers.                                                               *)
(***************************************************************************)
EXTENDS Integers, Sequences, FiniteSets, TLC

\* ------------------------------------------------------------------ bounds
\* largest reference length supplied on the command line
MaxRefLen == 3
\* largest length of one input cigar operation
MaxOpLen == 3
\* largest number of operations of one input cigar
MaxOps == 2
\* largest number of records the reader yields
MaxRecords == 2

\* --------------------------------------------------------------- cigar ops
Kinds ==
  {"Match", "Ins", "Del", "RefSkip", "SoftClip", "HardClip", "Pad", "Equal", "Diff"}

Cigar(kind, len) == [kind |-> kind, len |-> len]

\* the operations an input cigar is made of
Ops == {Cigar(k, n) : k \in Kinds, n \in 0..MaxOpLen}

\* NewCigar with the arm of Equal copied from the arm of Diff
NewCigar_EqualAsDiff(ref_cig, len) ==
  CASE ref_cig.kind = "Match" -> Cigar("Match", len)
    [] ref_cig.kind = "Ins" -> Cigar("Ins", len)
    [] ref_cig.kind = "Del" -> Cigar("Del", len)
    [] ref_cig.kind = "RefSkip" -> Cigar("RefSkip", len)
    [] ref_cig.kind = "SoftClip" -> Cigar("SoftClip", len)
    [] ref_cig.kind = "HardClip" -> Cigar("HardClip", len)
    [] ref_cig.kind = "Pad" -> Cigar("Pad", len)
    [] ref_cig.kind = "Equal" -> Cigar("Diff", len)
    [] ref_cig.kind = "Diff" -> Cigar("Diff", len)

\* return a new cigar w/ the same type as ref_cig
NewCigar(ref_cig, len) ==
  CASE ref_cig.kind = "Match" -> Cigar("Match", len)
    [] ref_cig.kind = "Ins" -> Cigar("Ins", len)
    [] ref_cig.kind = "Del" -> Cigar("Del", len)
    [] ref_cig.kind = "RefSkip" -> Cigar("RefSkip", len)
    [] ref_cig.kind = "SoftClip" -> Cigar("SoftClip", len)
    [] ref_cig.kind = "HardClip" -> Cigar("HardClip", len)
    [] ref_cig.kind = "Pad" -> Cigar("Pad", len)
    [] ref_cig.kind = "Equal" -> Cigar("Equal", len)
    [] ref_cig.kind = "Diff" -> Cigar("Diff", len)

\* the closure of ref_occupancy: the reference one operation occupies
OpRefLen(c) ==
  CASE c.kind = "Match" -> c.len
    [] c.kind = "Del" -> c.len
    [] c.kind = "RefSkip" -> c.len
    [] c.kind = "Equal" -> c.len
    [] c.kind = "Diff" -> c.len
    [] OTHER -> 0

RECURSIVE RefOccupancy(_)
\* length of reference occupied by cigar string
RefOccupancy(cs) ==
  IF cs = <<>> THEN 0 ELSE OpRefLen(Head(cs)) + RefOccupancy(Tail(cs))

\* ---------------------------------------------------------------- mod_cigar
\* InSecondCopy with > for >=
InSecondCopy_Strict(aln_pos, ref_len) == aln_pos > ref_len

\* the test that the alignment starts in the second copy
InSecondCopy(aln_pos, ref_len) == aln_pos >= ref_len

\* WalkStep with the two halves of a cut operation pushed to the wrong groups
WalkStep_HalvesSwapped(ref_len, w, op) ==
  LET advance == OpRefLen(op)
  IN  IF w.pos >= ref_len
        THEN [pos |-> w.pos + advance,
              prefix |-> Append(w.prefix, op),
              suffix |-> w.suffix]
      ELSE IF (w.pos + op.len) < ref_len
        THEN [pos |-> w.pos + advance,
              prefix |-> w.prefix,
              suffix |-> Append(w.suffix, op)]
      ELSE LET first_half == ref_len - w.pos
               second_half == op.len - first_half
           IN  [pos |-> w.pos + advance,
                prefix |-> Append(w.prefix, NewCigar(op, first_half)),
                suffix |-> Append(w.suffix, NewCigar(op, second_half))]

\* one iteration of the loop over the operations; w is the loop's state
\* [pos, prefix, suffix]
WalkStep(ref_len, w, op) ==
  LET advance == OpRefLen(op)
  IN  IF w.pos >= ref_len
        THEN [pos |-> w.pos + advance,
              prefix |-> Append(w.prefix, op),
              suffix |-> w.suffix]
      ELSE IF (w.pos + op.len) < ref_len
        THEN [pos |-> w.pos + advance,
              prefix |-> w.prefix,
              suffix |-> Append(w.suffix, op)]
      ELSE LET first_half == ref_len - w.pos
               second_half == op.len - first_half
           IN  [pos |-> w.pos + advance,
                prefix |-> Append(w.prefix, NewCigar(op, second_half)),
                suffix |-> Append(w.suffix, NewCigar(op, first_half))]

RECURSIVE Walk(_, _, _)
\* the whole loop
Walk(ref_len, w, cs) ==
  IF cs = <<>> THEN w ELSE Walk(ref_len, WalkStep(ref_len, w, Head(cs)), Tail(cs))

\* u32 subtraction; in the representation chosen for u32 the wrapped-around
\* difference of two small values is their (negative) integer difference
Sub32(a, b) == a - b

\* GapLen without the subtraction of len_of_suffix
GapLen_WithoutSuffix(ref_len, prefix, suffix) ==
  Sub32(ref_len, RefOccupancy(prefix))

\* ref_len - end_of_prefix - len_of_suffix, evaluated left to right
GapLen(ref_len, prefix, suffix) ==
  Sub32(Sub32(ref_len, RefOccupancy(prefix)), RefOccupancy(suffix))

\* one of the two subtractions goes below zero
GapUnderflows(ref_len, prefix, suffix) ==
  \/ ref_len < RefOccupancy(prefix)
  \/ ref_len - RefOccupancy(prefix) < RefOccupancy(suffix)

\* Gap with the two branches exchanged
Gap_Swapped(use_del, gap_len) ==
  IF use_del THEN Cigar("RefSkip", gap_len) ELSE Cigar("Del", gap_len)

\* the gap operation
Gap(use_del, gap_len) ==
  IF use_del THEN Cigar("Del", gap_len) ELSE Cigar("RefSkip", gap_len)

Panic == [status |-> "panic"]
Returned(p, ops) == [status |-> "ok", pos |-> p, ops |-> ops]

\* the code after the loop.  overflow_checks is the build's setting: with it
\* an arithmetic overflow panics, without it the value wraps around.
Assemble(ref_len, aln_pos, w, use_del, overflow_checks) ==
  IF Len(w.prefix) = 0
    THEN Returned(aln_pos % ref_len, w.suffix)
  ELSE IF overflow_checks /\ GapUnderflows(ref_len, w.prefix, w.suffix)
    THEN Panic
  ELSE Returned(0, w.prefix \o <<Gap(use_del, GapLen(ref_len, w.prefix, w.suffix))>>
                     \o w.suffix)

\* the loop's state before the first operation
WalkInit(ref_len, aln_pos) ==
  [pos |-> aln_pos % ref_len, prefix |-> <<>>, suffix |-> <<>>]

\* mod_cigar as a function of its arguments
ModCigar(ref_len, aln_pos, cs, use_del, overflow_checks) ==
  IF ref_len = 0 THEN Panic
  ELSE IF InSecondCopy(aln_pos, ref_len) THEN Returned(aln_pos % ref_len, cs)
  ELSE Assemble(ref_len, aln_pos, Walk(ref_len, WalkInit(ref_len, aln_pos), cs),
                use_del, overflow_checks)

\* ------------------------------------------------------------------- halve
BAM_FUNMAP == 4
BAM_FSECONDARY == 256
BAM_FQCFAIL == 512
BAM_FDUP == 1024
BAM_FSUPPLEMENTARY == 2048
RECURSIVE BitAnd(_, _)
\* a & b on non-negative integers
BitAnd(a, b) ==
  IF a = 0 \/ b = 0 THEN 0
  ELSE 2 * BitAnd(a \div 2, b \div 2) + (IF a % 2 = 1 /\ b % 2 = 1 THEN 1 ELSE 0)

\* the five flags have no bit in common, so their bitwise or is their sum
NONPRIMARY ==
  BAM_FUNMAP + BAM_FSECONDARY + BAM_FQCFAIL + BAM_FDUP + BAM_FSUPPLEMENTARY

\* IsPrimary with BAM_FSUPPLEMENTARY left out of the mask
IsPrimary_WithoutSupplementary(flags) ==
  BitAnd(flags, NONPRIMARY - BAM_FSUPPLEMENTARY) = 0

\* the filter of halve's loop
IsPrimary(flags) == BitAnd(flags, NONPRIMARY) = 0

\* the record halve builds and writes for the record aln
NewAln(aln, r) == [qname |-> aln.qname, pos |-> r.pos, cigar |-> r.ops]

\* the flag words the reader yields; 16 (reverse strand) is a flag that is not
\* part of the mask
FlagValues ==
  {0, 16, BAM_FUNMAP, BAM_FSECONDARY, BAM_FQCFAIL, BAM_FDUP,
   BAM_FSUPPLEMENTARY}

\* the cigars of the records the reader yields: one match, short or longer
\* than every reference
RecordCigars == {<<Cigar("Match", n)>> : n \in {1, 2, MaxRefLen + 1}}

\* the positions of the records the reader yields
RecordPositions == 0..1

\* ------------------------------------------------------------------- state
VARIABLES
  ref_len,          \* halve, mod_cigar: the reference length L
  use_del,          \* halve, mod_cigar: gaps are Del rather than RefSkip
  profile,          \* the build: "dev" (arithmetic overflow panics), "release"
                    \* (it wraps around); "any" while one call is examined
                    \* for both
  aln_pos,          \* mod_cigar: start of the alignment
  cigars,           \* mod_cigar: operations the iterator has yielded
  pc,               \* mod_cigar: "entry", "walk", "returned", "panicked"
  pos,              \* mod_cigar: reference cursor
  prefix,           \* mod_cigar: operations that wrap into the second copy
  suffix,           \* mod_cigar: operations that land in the first copy
  ret,              \* mod_cigar: the value returned
  reader,           \* halve: records pulled so far
  writer,           \* halve: records written so far
  hpc               \* halve: "run", "done", "panicked", "failed"

vars ==
  <<ref_len, use_del, profile, aln_pos, cigars, pc, pos, prefix, suffix,
    ret, reader, writer, hpc>>

modVars == <<aln_pos, cigars, pc, pos, prefix, suffix, ret>>
halveVars == <<reader, writer, hpc>>
runVars == <<ref_len, use_del, profile>>

NoRet == [status |-> "none"]

\* the settings of overflow checks the build can have
OverflowChecks ==
  IF profile = "any" THEN BOOLEAN ELSE {profile = "dev"}

\* ------------------------------------------------ mod_cigar, step by step
Init ==
  /\ ref_len \in 0..MaxRefLen
  /\ use_del \in BOOLEAN
  /\ profile = "any"
  /\ aln_pos \in (IF ref_len = 0 THEN {0} ELSE 0..(2 * ref_len - 1))
  /\ cigars = <<>>
  /\ pc = "entry"
  /\ pos = 0
  /\ prefix = <<>>
  /\ suffix = <<>>
  /\ ret = NoRet
  /\ reader = <<>>
  /\ writer = <<>>
  /\ hpc = "idle"

RECURSIVE SeqsUpTo(_, _)
\* the sequences over S of length at most n
SeqsUpTo(S, n) ==
  IF n = 0 THEN {<<>>}
  ELSE LET shorter == SeqsUpTo(S, n - 1)
       IN  shorter \cup {Append(s, x) : s \in shorter, x \in S}

\* aln_pos % ref_len with ref_len = 0: division by zero
ModByZero ==
  /\ pc = "entry"
  /\ ref_len = 0
  /\ pc' = "panicked"
  /\ ret' = Panic
  /\ UNCHANGED <<aln_pos, cigars, pos, prefix, suffix>>
  /\ UNCHANGED <<runVars, halveVars>>

\* the alignment starts in the second copy: the iterator is collected whole
SecondCopy ==
  /\ pc = "entry"
  /\ ref_len > 0
  /\ InSecondCopy(aln_pos, ref_len)
  /\ \E cs \in SeqsUpTo(Ops, MaxOps) :
       /\ cigars' = cs
       /\ ret' = Returned(aln_pos % ref_len, cs)
  /\ pos' = aln_pos % ref_len
  /\ pc' = "returned"
  /\ UNCHANGED <<aln_pos, prefix, suffix>>
  /\ UNCHANGED <<runVars, halveVars>>

\* the alignment starts in the first copy: the loop begins
EnterWalk ==
  /\ pc = "entry"
  /\ ref_len > 0
  /\ ~InSecondCopy(aln_pos, ref_len)
  /\ pos' = WalkInit(ref_len, aln_pos).pos
  /\ prefix' = WalkInit(ref_len, aln_pos).prefix
  /\ suffix' = WalkInit(ref_len, aln_pos).suffix
  /\ pc' = "walk"
  /\ UNCHANGED <<aln_pos, cigars, ret>>
  /\ UNCHANGED <<runVars, halveVars>>

\* one iteration of the loop: the iterator yields op
WalkOp ==
  /\ pc = "walk"
  /\ Len(cigars) < MaxOps
  /\ \E op \in Ops :
       LET w == WalkStep(ref_len, [pos |-> pos, prefix |-> prefix, suffix |-> suffix], op)
       IN  /\ cigars' = Append(cigars, op)
           /\ pos' = w.pos
           /\ prefix' = w.prefix
           /\ suffix' = w.suffix
  /\ UNCHANGED <<aln_pos, pc, ret>>
  /\ UNCHANGED <<runVars, halveVars>>

\* the iterator is exhausted: the code after the loop
WalkEnd ==
  /\ pc = "walk"
  /\ \E overflow_checks \in OverflowChecks :
       ret' = Assemble(ref_len, aln_pos,
                       [pos |-> pos, prefix |-> prefix, suffix |-> suffix],
                       use_del, overflow_checks)
  /\ pc' = IF ret'.status = "panic" THEN "panicked" ELSE "returned"
  /\ UNCHANGED <<aln_pos, cigars, pos, prefix, suffix>>
  /\ UNCHANGED <<runVars, halveVars>>

Next == ModByZero \/ SecondCopy \/ EnterWalk \/ WalkOp \/ WalkEnd

Spec == Init /\ [][Next]_vars

\* --------------------------------------------------- halve, record by record
InitHalve ==
  /\ ref_len \in 0..MaxRefLen
  /\ use_del \in BOOLEAN
  /\ profile \in {"dev", "release"}
  /\ aln_pos = 0
  /\ cigars = <<>>
  /\ pc = "idle"
  /\ pos = 0
  /\ prefix = <<>>
  /\ suffix = <<>>
  /\ ret = NoRet
  /\ reader = <<>>
  /\ writer = <<>>
  /\ hpc = "run"

\* the records the reader can yield next; the query name tells the records
\* of one file apart
NextRecords ==
  {[qname |-> Len(reader) + 1, flags |-> f, pos |-> p, cigar |-> c] :
     f \in FlagValues, p \in RecordPositions, c \in RecordCigars}

\* the value mod_cigar returns for the record aln
Remap(aln) == ModCigar(ref_len, aln.pos, aln.cigar, use_del, profile = "dev")

\* a record that is not primary is dropped
SkipRecord ==
  /\ hpc = "run"
  /\ Len(reader) < MaxRecords
  /\ \E aln \in NextRecords :
       /\ ~IsPrimary(aln.flags)
       /\ reader' = Append(reader, aln)
  /\ UNCHANGED <<writer, hpc>>
  /\ UNCHANGED <<runVars, modVars>>

\* a primary record is remapped and written
WriteRecord ==
  /\ hpc = "run"
  /\ Len(reader) < MaxRecords
  /\ \E aln \in NextRecords :
       /\ IsPrimary(aln.flags)
       /\ Remap(aln).status = "ok"
       /\ reader' = Append(reader, aln)
       /\ writer' = Append(writer, NewAln(aln, Remap(aln)))
  /\ UNCHANGED hpc
  /\ UNCHANGED <<runVars, modVars>>

\* mod_cigar panics on a primary record
PanicRecord ==
  /\ hpc = "run"
  /\ Len(reader) < MaxRecords
  /\ \E aln \in NextRecords :
       /\ IsPrimary(aln.flags)
       /\ Remap(aln).status = "panic"
       /\ reader' = Append(reader, aln)
  /\ hpc' = "panicked"
  /\ UNCHANGED writer
  /\ UNCHANGED <<runVars, modVars>>

\* writer.write returns an error for a remapped record
WriteError ==
  /\ hpc = "run"
  /\ Len(reader) < MaxRecords
  /\ \E aln \in NextRecords :
       /\ IsPrimary(aln.flags)
       /\ Remap(aln).status = "ok"
       /\ reader' = Append(reader, aln)
  /\ hpc' = "failed"
  /\ UNCHANGED writer
  /\ UNCHANGED <<runVars, modVars>>

\* the reader yields an error instead of a record
ReadError ==
  /\ hpc = "run"
  /\ hpc' = "panicked"
  /\ UNCHANGED <<reader, writer>>
  /\ UNCHANGED <<runVars, modVars>>

\* the reader is exhausted
EndOfFile ==
  /\ hpc = "run"
  /\ hpc' = "done"
  /\ UNCHANGED <<reader, writer>>
  /\ UNCHANGED <<runVars, modVars>>

NextHalve ==
  SkipRecord \/ WriteRecord \/ PanicRecord \/ WriteError \/ ReadError \/ EndOfFile

SpecHalve == InitHalve /\ [][NextHalve]_vars

\* ------------------------------------------------------------ used by claims
\* mod_cigar has been called and has ended
Ended == pc \in {"returned", "panicked"}

\* the call started in the first copy of a reference of positive length
StartsInFirstCopy == ref_len > 0 /\ aln_pos < ref_len

\* the call returned a sequence with an inserted gap; the gap is the
\* operation after the wrapped group
GapInserted == pc = "returned" /\ StartsInFirstCopy /\ prefix # <<>>
GapIndex == Len(prefix) + 1

ConsumesRef(op) == op.kind \in {"Match", "Del", "RefSkip", "Equal", "Diff"}
ConsumesQuery(op) == op.kind \in {"Match", "Ins", "SoftClip", "Equal", "Diff"}

RECURSIVE KindSum(_, _)
\* the sum of the lengths of the operations of kind k
KindSum(cs, k) ==
  IF cs = <<>> THEN 0
  ELSE (IF Head(cs).kind = k THEN Head(cs).len ELSE 0) + KindSum(Tail(cs), k)

RECURSIVE QueryLen(_)
\* the number of query bases a cigar consumes
QueryLen(cs) ==
  IF cs = <<>> THEN 0
  ELSE (IF ConsumesQuery(Head(cs)) THEN Head(cs).len ELSE 0) + QueryLen(Tail(cs))

\* the reference cursor before the j-th input operation
CursorBefore(j) == aln_pos + RefOccupancy(SubSeq(cigars, 1, j - 1))

\* ------------------------------------------------------------------ claims

\* C1: no-wrap identity.  For L > 0, 0 <= start < L and
\* start + occupancy(ops) <= L (the case of equality included), mod_cigar
\* returns exactly (start, ops).
C1_NoWrapIdentity ==
  (Ended /\ StartsInFirstCopy /\ aln_pos + RefOccupancy(cigars) <= ref_len)
    => ret = Returned(aln_pos, cigars)

\* C2: second-copy identity.  For L > 0 and L <= start < 2L, mod_cigar
\* returns (start - L, ops) with ops unchanged, whatever use_del is.
C2_SecondCopyIdentity ==
  (Ended /\ ref_len > 0 /\ ref_len <= aln_pos /\ aln_pos < 2 * ref_len)
    => ret = Returned(aln_pos - ref_len, cigars)

C2_Witness ==
  /\ pc = "returned"
  /\ aln_pos > ref_len
  /\ Len(cigars) = 2
  /\ RefOccupancy(cigars) > ref_len
  /\ ret.ops = cigars

\* C3: gap accounting.  For 0 <= start < L, occupancy(ops) <= L and a
\* non-empty wrapped group, mod_cigar returns position 0 and the sequence
\* wrapped group ++ [gap] ++ direct group, the gap length is >= 0, and
\* occupancy(wrapped) + gapLength + occupancy(direct) = L, which is also the
\* reference occupancy of the returned sequence.
C3_GapAccounting ==
  (Ended /\ StartsInFirstCopy /\ RefOccupancy(cigars) <= ref_len /\ prefix # <<>>)
    => /\ ret.status = "ok"
       /\ ret.pos = 0
       /\ Len(ret.ops) = Len(prefix) + 1 + Len(suffix)
       /\ SubSeq(ret.ops, 1, Len(prefix)) = prefix
       /\ SubSeq(ret.ops, GapIndex + 1, Len(ret.ops)) = suffix
       /\ ret.ops[GapIndex].kind \in {"Del", "RefSkip"}
       /\ ret.ops[GapIndex].len >= 0
       /\ RefOccupancy(prefix) + ret.ops[GapIndex].len + RefOccupancy(suffix) = ref_len
       /\ RefOccupancy(ret.ops) = ref_len

C3_Witness ==
  /\ GapInserted
  /\ RefOccupancy(cigars) <= ref_len
  /\ RefOccupancy(prefix) > 0
  /\ RefOccupancy(suffix) > 0
  /\ ret.ops[GapIndex].len > 0

\* C4: gap kind selection.  The inserted gap is a Del when use_del is true and
\* a RefSkip when it is false; the results for the two values of use_del agree
\* in position, in length and in every operation but the kind of the gap, whose
\* length is the same; where no gap is inserted the two results are equal.
C4_GapKindSelection ==
  Ended =>
    \* the same build: one that panicked has overflow checks, and in one that
    \* returned either nothing overflowed or there are none
    LET other == ModCigar(ref_len, aln_pos, cigars, ~use_del, ret.status = "panic")
    IN  IF GapInserted
          THEN /\ ret.ops[GapIndex].kind = (IF use_del THEN "Del" ELSE "RefSkip")
               /\ other.status = "ok"
               /\ other.pos = ret.pos
               /\ Len(other.ops) = Len(ret.ops)
               /\ \A k \in 1..Len(ret.ops) : k # GapIndex => other.ops[k] = ret.ops[k]
               /\ other.ops[GapIndex].len = ret.ops[GapIndex].len
               /\ other.ops[GapIndex].kind = (IF use_del THEN "RefSkip" ELSE "Del")
          ELSE other = ret

C4_Witness ==
  /\ GapInserted
  /\ use_del
  /\ ret.ops[GapIndex] = Cigar("Del", 1)
  /\ \E k \in 1..Len(ret.ops) : k # GapIndex /\ ret.ops[k].kind = "Del"

\* C7: straddling split.  When the walk reaches a reference-consuming operation
\* with cursor < L and cursor + len > L, the operation becomes two operations of
\* its kind, of length L - cursor at the end of the direct group and of length
\* len - (L - cursor) in the wrapped group; the cursor advances by len; every
\* later operation is appended whole, in order, to the wrapped group.  A single
\* Match(n) with start + n > L (and n <= L, so that the gap length exists)
\* yields (0, [Match(start + n - L), gap(L - n), Match(L - start)]).
C7_StraddlingSplit ==
  /\ (pc \in {"walk", "returned", "panicked"} /\ StartsInFirstCopy)
       => /\ pos = aln_pos + RefOccupancy(cigars)
          /\ \A j \in 1..Len(cigars) :
               (/\ ConsumesRef(cigars[j])
                /\ CursorBefore(j) < ref_len
                /\ CursorBefore(j) + cigars[j].len > ref_len)
                 => LET first == ref_len - CursorBefore(j)
                        later == Len(cigars) - j
                    IN  /\ Len(suffix) = j
                        /\ suffix[j] = Cigar(cigars[j].kind, first)
                        /\ Len(prefix) >= later + 1
                        /\ SubSeq(prefix, Len(prefix) - later, Len(prefix))
                             = <<Cigar(cigars[j].kind, cigars[j].len - first)>>
                                 \o SubSeq(cigars, j + 1, Len(cigars))
  /\ (/\ Ended /\ StartsInFirstCopy
      /\ Len(cigars) = 1 /\ cigars[1].kind = "Match"
      /\ aln_pos + cigars[1].len > ref_len /\ cigars[1].len <= ref_len)
       => ret = Returned(0, <<Cigar("Match", aln_pos + cigars[1].len - ref_len),
                              Gap(use_del, ref_len - cigars[1].len),
                              Cigar("Match", ref_len - aln_pos)>>)

C7_Witness ==
  /\ pc = "returned"
  /\ StartsInFirstCopy
  /\ Len(cigars) = 2
  /\ cigars[1].kind = "Diff"
  /\ aln_pos + cigars[1].len > ref_len
  /\ suffix = <<Cigar("Diff", ref_len - aln_pos)>>
  /\ prefix = <<Cigar("Diff", aln_pos + cigars[1].len - ref_len), cigars[2]>>
  /\ cigars[2].len > 0

\* C8: an operation that consumes no reference (Ins, SoftClip, HardClip, Pad)
\* met while the cursor is < L is placed whole into the direct group whatever
\* its length; it is not split, nothing goes to the wrapped group and the
\* cursor does not move.
C8_NonConsumingWhole ==
  [][(/\ pc = "walk" /\ pc' = "walk"
      /\ Len(cigars') = Len(cigars) + 1
      /\ ~ConsumesRef(cigars'[Len(cigars')])
      /\ pos < ref_len)
       => /\ suffix' = Append(suffix, cigars'[Len(cigars')])
          /\ prefix' = prefix
          /\ pos' = pos]_vars

\* C9: direct-group coordinates are kept.  For 0 <= start < L and
\* occupancy(ops) <= L, when a gap is inserted
\* occupancy(wrapped) + gapLength = start and occupancy(direct) = L - start.
C9_DirectGroupKept ==
  (GapInserted /\ RefOccupancy(cigars) <= ref_len)
    => /\ RefOccupancy(prefix) + ret.ops[GapIndex].len = aln_pos
       /\ RefOccupancy(suffix) = ref_len - aln_pos

\* C10: per-kind length conservation.  For every call that returns and every
\* kind, the lengths of the operations of that kind in the returned sequence,
\* the inserted gap not counted, add up to what they add up to in the input;
\* the returned sequence consumes as many query bases as the input.
C10_LengthConservation ==
  pc = "returned" =>
    LET kept == IF GapInserted
                  THEN SubSeq(ret.ops, 1, GapIndex - 1)
                         \o SubSeq(ret.ops, GapIndex + 1, Len(ret.ops))
                  ELSE ret.ops
        \* the kinds that occur; of every other kind both sums are 0
        occurring == {kept[i].kind : i \in 1..Len(kept)}
                       \cup {cigars[i].kind : i \in 1..Len(cigars)}
    IN  /\ occurring \subseteq Kinds
        /\ \A k \in occurring : KindSum(kept, k) = KindSum(cigars, k)
        /\ QueryLen(ret.ops) = QueryLen(cigars)

C10_Witness ==
  /\ GapInserted
  /\ Len(cigars) = 2
  /\ \E j \in 1..2 : cigars[j] = Cigar("Equal", 2)
  /\ KindSum(ret.ops, "Equal") = 2
  /\ \E k \in 1..Len(ret.ops) : ret.ops[k] = Cigar("Equal", 1)

\* ---------------------------------------------------------- claims on halve
HasFlag(flags, bit) == (flags \div bit) % 2 = 1

\* none of unmapped, secondary, QC-fail, duplicate, supplementary is set
PrimaryFlags(flags) ==
  \A bit \in {4, 256, 512, 1024, 2048} : ~HasFlag(flags, bit)

\* the query names of a sequence of records, in order
Qnames(rs) == [k \in 1..Len(rs) |-> rs[k].qname]

PrimaryRecord(aln) == PrimaryFlags(aln.flags)

\* C5: order preservation and filtering.  While no record has triggered an
\* abort, the records written are, in input order, one record for each record
\* pulled whose flags have none of the five non-primary bits, and none for the
\* others; a record is written before the next one is pulled.
C5_OrderAndFiltering ==
  hpc \in {"run", "done"} => Qnames(writer) = Qnames(SelectSeq(reader, PrimaryRecord))

C5_Witness ==
  /\ hpc = "done"
  /\ Len(reader) = 2
  /\ reader[1].flags = BAM_FSUPPLEMENTARY
  /\ reader[2].flags = 16
  /\ Qnames(writer) = <<2>>

\* C6: precondition violations are fatal.  When the reference length is 0, or
\* a primary record has 0 <= start < L and reference occupancy > L, the run
\* aborts at that record: nothing is written for it or after it, what was
\* written is the output of the earlier primary records, and no gap with a
\* wrapped-around length is written.
C6_ViolationsFatal ==
  /\ \A k \in 1..Len(reader) :
       (/\ PrimaryRecord(reader[k])
        /\ \/ ref_len = 0
           \/ reader[k].pos < ref_len /\ RefOccupancy(reader[k].cigar) > ref_len)
         => /\ hpc = "panicked"
            /\ k = Len(reader)
            /\ Qnames(writer) = Qnames(SelectSeq(SubSeq(reader, 1, k - 1), PrimaryRecord))
  /\ \A k \in 1..Len(writer) : \A i \in 1..Len(writer[k].cigar) :
       writer[k].cigar[i].len >= 0

=============================================================================
